---- MODULE Spec2Model ----
(***************************************************************************)
(* covid-19-dash: the ETL pipeline of application/covid_dash_app/etl.py    *)
(* (clean_data, country_data, daily_data, the five left joins and the      *)
(* derived columns of get_datasets) and the memoized get_datasets as it is *)
(* called by the Dash layout and callback of dash_covid.py.                *)
(*                                                                         *)
(* Two state machines share this module:                                   *)
(*   SpecEtl  one run of the body of get_datasets over bounded CSV inputs, *)
(*            stage by stage, on the real table contents;                  *)
(*   Spec     concurrent callers of the memoized get_datasets, with the    *)
(*            table contents abstracted to the pipeline run that made      *)
(*            them (SpecSeq: the same callers, one call at a time).        *)
(*                                                                         *)
(* Text values that the code orders or parses (country names, the date     *)
(* column labels) are sequences of character codes, so that the lexical    *)
(* order of a label and the calendar order of the date it parses to are    *)
(* two different things, as they are in the program.                       *)
(***************************************************************************)
EXTENDS Integers, Sequences, FiniteSets, TLC

VARIABLES
    \* ---- SpecEtl: one run of the pipeline body
    csv,                \* the three remote CSV resources (wide tables)
    dfs_global,         \* etl.py:56   id -> LongTable
    dfs_country,        \* etl.py:67   id -> CountryTable
    dfs_daily,          \* etl.py:73   id -> DailyDeltaTable
    df_country_consol,  \* etl.py:82   ConsolidatedTable
    stage,              \* how far the body has run
    \* ---- Spec: callers of the memoized function
    pc,                 \* caller -> position inside get_datasets
    local,              \* caller -> ids of the datasets its run has built so far
    run,                \* caller -> the pipeline run it is executing
    requests,           \* caller -> HTTP requests issued by its current call
    result,             \* caller -> what its last call gave it
    cache,              \* the memoize slot of get_datasets
    now,                \* the clock
    fetchCount          \* pipeline runs started so far (the fetch-count probe)

etlVars == <<csv, dfs_global, dfs_country, dfs_daily, df_country_consol, stage>>
cacheVars == <<pc, local, run, requests, result, cache, now, fetchCount>>
vars == <<csv, dfs_global, dfs_country, dfs_daily, df_country_consol, stage,
          pc, local, run, requests, result, cache, now, fetchCount>>

\* ------------------------------------------------------------------ bounds
\* Largest cumulative count in a CSV cell.
MaxVal == 1
\* The clock advances Quantum time units at a time, at most MaxTicks times.
Quantum == 120
MaxTicks == 5
\* Pipeline runs started in one behaviour.
MaxRuns == 3

\* ------------------------------------------------------- dataset identifiers
TS_COVID19_CONFIRMED_GLOBAL == "time_series_covid19_confirmed_global"
TS_COVID19_DEATHS_GLOBAL == "time_series_covid19_deaths_global"
TS_COVID19_RECOVERED_GLOBAL == "time_series_covid19_recovered_global"
TS_COVID19_CONFIRMED_COUNTRY == "time_series_covid19_confirmed_country"
TS_COVID19_DEATHS_COUNTRY == "time_series_covid19_deaths_country"
TS_COVID19_RECOVERED_COUNTRY == "time_series_covid19_recovered_country"
TS_COVID19_DAILY_NEW_CONFIRMED_COUNTRY == "time_series_covid19_daily_new_confirmed_country"
TS_COVID19_DAILY_NEW_DEATHS_COUNTRY == "time_series_covid19_daily_new_deaths_country"
TS_COVID19_DAILY_NEW_RECOVERED_COUNTRY == "time_series_covid19_daily_new_recovered_country"
TS_COVID19_CONSOLIDATED_COUNTRY == "time_series_covid19_consolidated_country"
TS_COVID19_ACTIVE_CASES_COUNTRY == "time_series_covid19_active_cases_country"

\* The (identifier, URL) list of get_datasets, in its order.
cssegis_data ==
    <<TS_COVID19_CONFIRMED_GLOBAL, TS_COVID19_DEATHS_GLOBAL, TS_COVID19_RECOVERED_GLOBAL>>

GlobalKeys == {cssegis_data[i] : i \in 1..Len(cssegis_data)}

\* df_key.replace("global", "country")
GlobalToCountryKey(df_key) ==
    CASE df_key = TS_COVID19_CONFIRMED_GLOBAL -> TS_COVID19_CONFIRMED_COUNTRY
      [] df_key = TS_COVID19_DEATHS_GLOBAL -> TS_COVID19_DEATHS_COUNTRY
      [] df_key = TS_COVID19_RECOVERED_GLOBAL -> TS_COVID19_RECOVERED_COUNTRY

\* df_key.replace("_covid19_", "_covid19_daily_new_")
CountryToDailyKey(df_key) ==
    CASE df_key = TS_COVID19_CONFIRMED_COUNTRY -> TS_COVID19_DAILY_NEW_CONFIRMED_COUNTRY
      [] df_key = TS_COVID19_DEATHS_COUNTRY -> TS_COVID19_DAILY_NEW_DEATHS_COUNTRY
      [] df_key = TS_COVID19_RECOVERED_COUNTRY -> TS_COVID19_DAILY_NEW_RECOVERED_COUNTRY

CountryKeys == {GlobalToCountryKey(k) : k \in GlobalKeys}
DailyKeys == {CountryToDailyKey(k) : k \in CountryKeys}

key_to_case_type(key) ==
    CASE key \in {TS_COVID19_CONFIRMED_GLOBAL, TS_COVID19_CONFIRMED_COUNTRY} -> "Confirmed"
      [] key \in {TS_COVID19_DEATHS_GLOBAL, TS_COVID19_DEATHS_COUNTRY} -> "Deaths"
      [] key \in {TS_COVID19_RECOVERED_GLOBAL, TS_COVID19_RECOVERED_COUNTRY} -> "Recovered"
      [] OTHER -> "Unknown"

TotalCol(key) ==
    CASE key_to_case_type(key) = "Confirmed" -> "Total Confirmed"
      [] key_to_case_type(key) = "Deaths" -> "Total Deaths"
      [] key_to_case_type(key) = "Recovered" -> "Total Recovered"
      [] OTHER -> "Total Unknown"

DailyCol(key) ==
    CASE key_to_case_type(key) = "Confirmed" -> "Daily New Confirmed"
      [] key_to_case_type(key) = "Deaths" -> "Daily New Deaths"
      [] key_to_case_type(key) = "Recovered" -> "Daily New Recovered"
      [] OTHER -> "Daily New Unknown"

\* ------------------------------------------------------------- text values
\* Character codes: "/" is 47, "0".."9" are 48..57, "A" is 65, "p" is 112.
RECURSIVE StrLess(_, _)
\* Python's < on str: lexicographic on the code points.
StrLess(a, b) ==
    IF a = <<>> THEN b # <<>>
    ELSE IF b = <<>> THEN FALSE
    ELSE IF Head(a) # Head(b) THEN Head(a) < Head(b)
    ELSE StrLess(Tail(a), Tail(b))

RECURSIVE SplitSlash(_, _)
SplitSlash(s, cur) ==
    IF s = <<>> THEN <<cur>>
    ELSE IF Head(s) = 47 THEN <<cur>> \o SplitSlash(Tail(s), <<>>)
    ELSE SplitSlash(Tail(s), Append(cur, Head(s)))

RECURSIVE ParseInt(_, _)
ParseInt(s, acc) ==
    IF s = <<>> THEN acc ELSE ParseInt(Tail(s), acc * 10 + (Head(s) - 48))

\* pd.to_datetime on a JHU column label "m/d/yy": the calendar date, here as
\* the number yyyymmdd (a comparable calendar-date value).
to_datetime(label) ==
    LET f == SplitSlash(label, <<>>)
        m == ParseInt(f[1], 0)
        d == ParseInt(f[2], 0)
        y == ParseInt(f[3], 0)
        year == IF y < 69 THEN 2000 + y ELSE 1900 + y
    IN  year * 10000 + m * 100 + d

\* ------------------------------------------------------------ float cells
\* A float64 cell: a number n/d, not-a-number, or a signed infinity.
Num(n) == [t |-> "num", n |-> n, d |-> 1]
NaN == [t |-> "nan", n |-> 0, d |-> 1]
Inf(s) == [t |-> "inf", n |-> s, d |-> 1]

IsNum(x) == x.t = "num"
IsNaN(x) == x.t = "nan"
IsInf(x) == x.t = "inf"

\* IEEE equality of two cells: not-a-number equals nothing, itself included.
FEq(a, b) ==
    \/ IsNum(a) /\ IsNum(b) /\ a.n * b.d = b.n * a.d
    \/ IsInf(a) /\ IsInf(b) /\ a.n = b.n

\* Series - Series on whole-number cells.
FSub(a, b) == IF IsNum(a) /\ IsNum(b) THEN Num(a.n - b.n) ELSE NaN

\* Series + Series on whole-number cells.
FAdd(a, b) == IF IsNum(a) /\ IsNum(b) THEN Num(a.n + b.n) ELSE NaN

\* Faulty variant: any division by zero gives not-a-number.
FDivZeroIsNaN(a, b) ==
    IF ~(IsNum(a) /\ IsNum(b)) \/ b.n = 0 THEN NaN
    ELSE IF b.n > 0 THEN [t |-> "num", n |-> a.n, d |-> b.n]
    ELSE [t |-> "num", n |-> 0 - a.n, d |-> 0 - b.n]

\* Series / Series on whole-number cells: numpy's true division, which gives
\* nan for 0/0 and a signed infinity for x/0, and raises nothing.
FDiv(a, b) ==
    IF ~(IsNum(a) /\ IsNum(b)) THEN NaN
    ELSE IF b.n = 0 THEN (IF a.n = 0 THEN NaN ELSE IF a.n > 0 THEN Inf(1) ELSE Inf(-1))
    ELSE IF b.n > 0 THEN [t |-> "num", n |-> a.n, d |-> b.n]
    ELSE [t |-> "num", n |-> 0 - a.n, d |-> 0 - b.n]

Pow10(k) == IF k = 0 THEN 1 ELSE IF k = 1 THEN 10 ELSE IF k = 2 THEN 100 ELSE 1000

\* np.round(x, decimals): round half to even; nan and the infinities pass through.
np_round(x, decimals) ==
    IF ~IsNum(x) THEN x
    ELSE LET s == Pow10(decimals)
             q == (x.n * s) \div x.d
             r == (x.n * s) - q * x.d
             up == \/ 2 * r > x.d
                   \/ 2 * r = x.d /\ q % 2 = 1
         IN  [t |-> "num", n |-> IF up THEN q + 1 ELSE q, d |-> s]

\* --------------------------------------------------------------- tables
\* A table is the sequence of its rows; a row is a function from column name
\* to value. A wide (raw) table is [columns |-> date labels, rows |-> rows],
\* each row [id |-> identifying columns, vals |-> one cell per date label].
IndexCols == {"Country/Region", "Date"}

\* A stable ascending sort of seq; less[i, j] says that row i goes before row j.
SortBy(seq, less) ==
    LET n == Len(seq)
        rank(i) == 1 + Cardinality({j \in 1..n :
                        \/ less[j, i]
                        \/ ~less[i, j] /\ j < i})
    IN  [p \in 1..n |-> seq[CHOOSE i \in 1..n : rank(i) = p]]

RECURSIVE SumCases(_, _, _)
\* The sum of "Cases" over the rows of one (country, date label) group.
SumCases(rows, country, label) ==
    IF rows = <<>> THEN 0
    ELSE (IF Head(rows)["Country/Region"] = country /\ Head(rows)["Date"] = label
          THEN Head(rows)["Cases"] ELSE 0)
         + SumCases(Tail(rows), country, label)

\* df_raw.melt(id_vars=[...], value_name="Cases", var_name="Date"): one row
\* per (row, date column), column by column.
clean_data(df_raw) ==
    LET n == Len(df_raw.rows)
        m == Len(df_raw.columns)
    IN  [k \in 1..(n * m) |->
            LET i == ((k - 1) % n) + 1
                j == ((k - 1) \div n) + 1
            IN  df_raw.rows[i].id
                @@ ("Date" :> df_raw.columns[j])
                @@ ("Cases" :> df_raw.rows[i].vals[j])]

\* The order groupby gives its groups: by country, then by the date LABEL.
GroupKeyLess(a, b) ==
    \/ StrLess(a["Country/Region"], b["Country/Region"])
    \/ /\ a["Country/Region"] = b["Country/Region"]
       /\ StrLess(a["Date"], b["Date"])

\* The order of sort_values(["Country/Region", "Date"]) on the parsed index.
CountryDateLess(a, b) ==
    \/ StrLess(a["Country/Region"], b["Country/Region"])
    \/ /\ a["Country/Region"] = b["Country/Region"]
       /\ a["Date"] < b["Date"]

\* Faulty variant: the group keeps its first row's value instead of the sum.
GroupFirst(df_cleaned) ==
    LET n == Len(df_cleaned)
        same(i, j) == /\ df_cleaned[i]["Country/Region"] = df_cleaned[j]["Country/Region"]
                      /\ df_cleaned[i]["Date"] = df_cleaned[j]["Date"]
        firsts == {i \in 1..n : \A j \in 1..(i - 1) : ~same(i, j)}
        pick[p \in 1..Cardinality(firsts)] ==
            CHOOSE i \in firsts : Cardinality({j \in firsts : j < i}) = p - 1
        groups == [p \in 1..Cardinality(firsts) |->
                     LET r == df_cleaned[pick[p]]
                     IN  ("Country/Region" :> r["Country/Region"])
                         @@ ("Date" :> r["Date"])
                         @@ ("Cases" :> r["Cases"])]
    IN  SortBy(groups, [i \in 1..Len(groups), j \in 1..Len(groups) |->
                           GroupKeyLess(groups[i], groups[j])])

\* df_cleaned.groupby(["Country/Region", "Date"])["Cases"].sum().reset_index()
GroupSum(df_cleaned) ==
    LET n == Len(df_cleaned)
        same(i, j) == /\ df_cleaned[i]["Country/Region"] = df_cleaned[j]["Country/Region"]
                      /\ df_cleaned[i]["Date"] = df_cleaned[j]["Date"]
        firsts == {i \in 1..n : \A j \in 1..(i - 1) : ~same(i, j)}
        pick[p \in 1..Cardinality(firsts)] ==
            CHOOSE i \in firsts : Cardinality({j \in firsts : j < i}) = p - 1
        groups == [p \in 1..Cardinality(firsts) |->
                     LET r == df_cleaned[pick[p]]
                     IN  ("Country/Region" :> r["Country/Region"])
                         @@ ("Date" :> r["Date"])
                         @@ ("Cases" :> SumCases(df_cleaned, r["Country/Region"], r["Date"]))]
    IN  SortBy(groups, [i \in 1..Len(groups), j \in 1..Len(groups) |->
                           GroupKeyLess(groups[i], groups[j])])

\* Faulty variant: without the sort_values, the rows stay in the groups' label order.
country_data_unsorted(df_cleaned, oldname, newname) ==
    LET grouped == GroupSum(df_cleaned)
    IN  [p \in 1..Len(grouped) |->
            ("Country/Region" :> grouped[p]["Country/Region"])
            @@ ("Date" :> to_datetime(grouped[p]["Date"]))
            @@ (newname :> Num(grouped[p][oldname]))]

\* country_data: group and sum, parse the date level, sort by (country,
\* date), rename the value column.
country_data(df_cleaned, oldname, newname) ==
    LET grouped == GroupSum(df_cleaned)
        parsed == [p \in 1..Len(grouped) |->
                     ("Country/Region" :> grouped[p]["Country/Region"])
                     @@ ("Date" :> to_datetime(grouped[p]["Date"]))
                     @@ (newname :> Num(grouped[p][oldname]))]
    IN  SortBy(parsed, [i \in 1..Len(parsed), j \in 1..Len(parsed) |->
                           CountryDateLess(parsed[i], parsed[j])])

\* daily_data: dfcountry.groupby(level=0).diff().fillna(0), renamed. The
\* difference is to the previous row of the same country in row order.
daily_data(dfcountry, oldname, newname) ==
    [i \in 1..Len(dfcountry) |->
        LET before == {j \in 1..(i - 1) :
                          dfcountry[j]["Country/Region"] = dfcountry[i]["Country/Region"]}
            diff == IF before = {} THEN NaN
                    ELSE LET j == CHOOSE j \in before : \A k \in before : k <= j
                         IN  FSub(dfcountry[i][oldname], dfcountry[j][oldname])
            filled == IF IsNaN(diff) THEN Num(0) ELSE diff
        IN  ("Country/Region" :> dfcountry[i]["Country/Region"])
            @@ ("Date" :> dfcountry[i]["Date"])
            @@ (newname :> filled)]

\* pd.merge(left, right, how="left", left_index=True, right_index=True): every
\* left row, once per right row with the same (country, date) index, or once
\* with the right columns missing when there is none.
KeyOfRow(r) == <<r["Country/Region"], r["Date"]>>

RECURSIVE LeftRows(_, _, _)
LeftRows(left, right, i) ==
    IF i > Len(left) THEN <<>>
    ELSE LET rcols == IF right = <<>> THEN {} ELSE DOMAIN right[1] \ IndexCols
             hits == {j \in 1..Len(right) :
                         /\ right[j]["Country/Region"] = left[i]["Country/Region"]
                         /\ right[j]["Date"] = left[i]["Date"]}
             pick[p \in 1..Cardinality(hits)] ==
                 CHOOSE j \in hits : Cardinality({k \in hits : k < j}) = p - 1
             joined == IF hits = {} THEN <<left[i] @@ [c \in rcols |-> NaN]>>
                       ELSE [p \in 1..Cardinality(hits) |->
                               left[i] @@ [c \in rcols |-> right[pick[p]][c]]]
         IN  joined \o LeftRows(left, right, i + 1)

\* Faulty variant: how="inner", the left rows without a match are dropped.
merge_inner(left, right) ==
    LET all == LeftRows(left, right, 1)
        keep == {i \in 1..Len(all) : KeyOfRow(all[i]) \in {KeyOfRow(right[j]) : j \in 1..Len(right)}}
        pick[p \in 1..Cardinality(keep)] ==
            CHOOSE i \in keep : Cardinality({k \in keep : k < i}) = p - 1
    IN  [p \in 1..Cardinality(keep) |-> all[pick[p]]]

merge_left(left, right) == LeftRows(left, right, 1)

\* etl.py:82-116, the five successive left joins anchored on confirmed.
JoinAll(country, daily) ==
    LET m1 == merge_left(country[TS_COVID19_CONFIRMED_COUNTRY],
                         daily[TS_COVID19_DAILY_NEW_CONFIRMED_COUNTRY])
        m2 == merge_left(m1, daily[TS_COVID19_DAILY_NEW_DEATHS_COUNTRY])
        m3 == merge_left(m2, country[TS_COVID19_DEATHS_COUNTRY])
        m4 == merge_left(m3, country[TS_COVID19_RECOVERED_COUNTRY])
    IN  merge_left(m4, daily[TS_COVID19_DAILY_NEW_RECOVERED_COUNTRY])

\* Faulty variant: missing totals count as 0.
ActiveCasesFillZero(r) ==
    LET z(x) == IF IsNaN(x) THEN Num(0) ELSE x
    IN  FSub(FSub(r["Total Confirmed"], z(r["Total Deaths"])), z(r["Total Recovered"]))

\* etl.py:117-121
ActiveCases(r) == FSub(FSub(r["Total Confirmed"], r["Total Deaths"]), r["Total Recovered"])

\* etl.py:122-126
RecoveredShare(r) ==
    np_round(FDiv(r["Total Recovered"], FAdd(r["Total Recovered"], r["Total Deaths"])), 2)

\* etl.py:127-129
DeathRatio(r) == np_round(FDiv(r["Total Deaths"], r["Total Confirmed"]), 3)

\* etl.py:117-129, the three derived columns, row by row.
DerivedColumns(df) ==
    [i \in 1..Len(df) |->
        df[i] @@ ("Total Active Cases" :> ActiveCases(df[i]))
              @@ ("Share of Recovered - Closed Cases" :> RecoveredShare(df[i]))
              @@ ("Death to Cases Ratio" :> DeathRatio(df[i]))]

\* ------------------------------------------------------------ CSV inputs
\* Country names "A", "B", "C"; sub-locations "", "p1", "p2".
CountryA == <<65>>
CountryB == <<66>>
CountryC == <<67>>
NoProvince == <<>>
ProvinceP1 == <<112, 49>>
ProvinceP2 == <<112, 50>>

\* The date column labels "1/9/20", "1/10/20", "1/11/20" in the
\* order the CSV has them (calendar order); as text, "1/10/20" < "1/9/20".
\* A CSV has one column per calendar date, so distinct labels are distinct
\* dates.
DateLabels ==
    << <<49, 47, 57, 47, 50, 48>>,
       <<49, 47, 49, 48, 47, 50, 48>>,
       <<49, 47, 49, 49, 47, 50, 48>> >>

Location(province, country) ==
    ("Province/State" :> province) @@ ("Country/Region" :> country)
    @@ ("Lat" :> 0) @@ ("Long" :> 0)

\* A country with two sub-locations around a country with one, over all the
\* date columns.
RichTables ==
    { [columns |-> DateLabels,
       rows |-> << [id |-> Location(ProvinceP1, CountryB), vals |-> v1],
                   [id |-> Location(NoProvince, CountryA), vals |-> v2],
                   [id |-> Location(ProvinceP2, CountryB), vals |-> v3] >>] :
      v1 \in [1..Len(DateLabels) -> 0..MaxVal],
      v2 \in [1..Len(DateLabels) -> 0..MaxVal],
      v3 \in [1..Len(DateLabels) -> 0..MaxVal] }

\* One location, over the first two or the last two date columns.
SmallTables ==
    { [columns |-> cols, rows |-> << [id |-> Location(NoProvince, c), vals |-> v] >>] :
      c \in {CountryA, CountryC},
      cols \in {SubSeq(DateLabels, 1, 2), SubSeq(DateLabels, 2, 3)},
      v \in [1..2 -> 0..MaxVal] }

\* What the three URLs serve: the same rich table, or any three small ones.
Inputs ==
    {[k \in GlobalKeys |-> t] : t \in RichTables} \cup [GlobalKeys -> SmallTables]

\* ------------------------------------------------- SpecEtl: the pipeline body
\* etl.py:56-65
LoadGlobal ==
    /\ stage = "start"
    /\ dfs_global' = [k \in GlobalKeys |-> clean_data(csv[k])]
    /\ stage' = "global"
    /\ UNCHANGED <<csv, dfs_country, dfs_daily, df_country_consol>>
    /\ UNCHANGED cacheVars

\* etl.py:67-71
BuildCountry ==
    /\ stage = "global"
    /\ dfs_country' = [c \in CountryKeys |->
                         LET k == CHOOSE g \in GlobalKeys : GlobalToCountryKey(g) = c
                         IN  country_data(dfs_global[k], "Cases", TotalCol(k))]
    /\ stage' = "country"
    /\ UNCHANGED <<csv, dfs_global, dfs_daily, df_country_consol>>
    /\ UNCHANGED cacheVars

\* etl.py:73-80
BuildDaily ==
    /\ stage = "country"
    /\ dfs_daily' = [d \in DailyKeys |->
                       LET c == CHOOSE x \in CountryKeys : CountryToDailyKey(x) = d
                       IN  daily_data(dfs_country[c], TotalCol(c), DailyCol(c))]
    /\ stage' = "daily"
    /\ UNCHANGED <<csv, dfs_global, dfs_country, df_country_consol>>
    /\ UNCHANGED cacheVars

\* etl.py:82-134
Consolidate ==
    /\ stage = "daily"
    /\ df_country_consol' = DerivedColumns(JoinAll(dfs_country, dfs_daily))
    /\ stage' = "done"
    /\ UNCHANGED <<csv, dfs_global, dfs_country, dfs_daily>>
    /\ UNCHANGED cacheVars

NextEtl == LoadGlobal \/ BuildCountry \/ BuildDaily \/ Consolidate

\* ------------------------------------- Spec: callers of the memoized function
\* dash_covid.py: the layout function and the "signal" callback both call
\* get_datasets(); Flask serves their requests concurrently.
Callers == {"generate_layout", "filter_dataset"}

\* @cache.memoize(timeout=360)
Timeout == 360

AllKeys ==
    GlobalKeys \cup CountryKeys \cup DailyKeys
    \cup {TS_COVID19_ACTIVE_CASES_COUNTRY, TS_COVID19_CONSOLIDATED_COUNTRY}

NoResult == [kind |-> "None"]
Raised(where) == [kind |-> "Error", at |-> where]
EmptySlot == [full |-> FALSE]

\* Faulty variant: an entry that never expires.
FreshForever(slot, clock) == slot.full

\* The slot holds a value that has not expired.
Fresh(slot, clock) == slot.full /\ clock < slot.expires

\* Faulty variant: the merged dictionary leaves the daily tables out.
ReturnValueNoDaily(t) ==
    [kind |-> "Bundle",
     tables |-> [k \in local[t] \ DailyKeys |-> run[t]],
     ts |-> <<"date", run[t]>>]

\* What a run has when it returns (etl.py:140-143): the merged dictionaries and
\* the commit date it fetched; tables and date carry the run that made them.
ReturnValue(t) ==
    [kind |-> "Bundle",
     tables |-> [k \in local[t] |-> run[t]],
     ts |-> <<"date", run[t]>>]

\* Faulty variant: the body runs on every call, whatever the slot holds.
CallNoLookup(t) ==
    /\ pc[t] = "idle"
    /\ fetchCount < MaxRuns
    /\ fetchCount' = fetchCount + 1
    /\ pc' = [pc EXCEPT ![t] = "load"]
    /\ local' = [local EXCEPT ![t] = {}]
    /\ run' = [run EXCEPT ![t] = fetchCount + 1]
    /\ requests' = [requests EXCEPT ![t] = 0]
    /\ UNCHANGED <<result, cache, now>>
    /\ UNCHANGED etlVars

\* The memoize wrapper looks the slot up: a fresh slot is returned as it is,
\* anything else enters the body of get_datasets (a new pipeline run).
Call(t) ==
    /\ pc[t] = "idle"
    /\ IF Fresh(cache, now)
       THEN /\ result' = [result EXCEPT ![t] = cache.value]
            /\ UNCHANGED <<pc, local, run, requests, fetchCount>>
       ELSE /\ fetchCount < MaxRuns
            /\ fetchCount' = fetchCount + 1
            /\ pc' = [pc EXCEPT ![t] = "load"]
            /\ local' = [local EXCEPT ![t] = {}]
            /\ run' = [run EXCEPT ![t] = fetchCount + 1]
            /\ requests' = [requests EXCEPT ![t] = 0]
            /\ UNCHANGED result
    /\ UNCHANGED <<cache, now>>
    /\ UNCHANGED etlVars

\* etl.py:58-65, one iteration: pd.read_csv and clean_data succeed.
LoadOk(t) ==
    /\ pc[t] = "load"
    /\ LET data_id == cssegis_data[Cardinality(local[t]) + 1]
       IN  /\ local' = [local EXCEPT ![t] = @ \cup {data_id}]
           /\ pc' = [pc EXCEPT ![t] =
                        IF Cardinality(local[t]) + 1 = Len(cssegis_data)
                        THEN "derive" ELSE "load"]
    /\ requests' = [requests EXCEPT ![t] = @ + 1]
    /\ UNCHANGED <<run, result, cache, now, fetchCount>>
    /\ UNCHANGED etlVars

\* Faulty variant: a failed fetch is swallowed and what was loaded so far is stored.
LoadFailStoresPartial(t) ==
    /\ pc[t] = "load"
    /\ requests' = [requests EXCEPT ![t] = @ + 1]
    /\ result' = [result EXCEPT ![t] = Raised("csv")]
    /\ cache' = [full |-> TRUE,
                 value |-> [kind |-> "Bundle", tables |-> [k \in local[t] |-> run[t]],
                            ts |-> <<"N/A">>],
                 storedAt |-> now, expires |-> now + Timeout]
    /\ pc' = [pc EXCEPT ![t] = "idle"]
    /\ UNCHANGED <<local, run, now, fetchCount>>
    /\ UNCHANGED etlVars

\* etl.py:62-63: pd.read_csv or clean_data raises; nothing catches it, the
\* wrapper stores nothing and the caller gets the exception.
LoadFail(t) ==
    /\ pc[t] = "load"
    /\ requests' = [requests EXCEPT ![t] = @ + 1]
    /\ result' = [result EXCEPT ![t] = Raised("csv")]
    /\ pc' = [pc EXCEPT ![t] = "idle"]
    /\ UNCHANGED <<local, run, cache, now, fetchCount>>
    /\ UNCHANGED etlVars

\* etl.py:67-134: the country, daily and consolidated tables, all local.
Derive(t) ==
    /\ pc[t] = "derive"
    /\ local' = [local EXCEPT ![t] = AllKeys]
    /\ pc' = [pc EXCEPT ![t] = "meta"]
    /\ UNCHANGED <<run, requests, result, cache, now, fetchCount>>
    /\ UNCHANGED etlVars

\* etl.py:136-143: _get_last_commit_date succeeds, the body returns, the
\* wrapper stores the value for Timeout and hands it to the caller.
MetaOk(t) ==
    /\ pc[t] = "meta"
    /\ requests' = [requests EXCEPT ![t] = @ + 1]
    /\ result' = [result EXCEPT ![t] = ReturnValue(t)]
    /\ cache' = [full |-> TRUE, value |-> ReturnValue(t),
                 storedAt |-> now, expires |-> now + Timeout]
    /\ pc' = [pc EXCEPT ![t] = "idle"]
    /\ UNCHANGED <<local, run, now, fetchCount>>
    /\ UNCHANGED etlVars

\* etl.py:185-193: urlopen, json.loads or the commit[0][...] lookup raises
\* inside _get_last_commit_date; get_datasets has no handler around the call.
MetaFail(t) ==
    /\ pc[t] = "meta"
    /\ requests' = [requests EXCEPT ![t] = @ + 1]
    /\ result' = [result EXCEPT ![t] = Raised("meta")]
    /\ pc' = [pc EXCEPT ![t] = "idle"]
    /\ UNCHANGED <<local, run, cache, now, fetchCount>>
    /\ UNCHANGED etlVars

\* Time passes.
Tick ==
    /\ now + Quantum <= Quantum * MaxTicks
    /\ now' = now + Quantum
    /\ UNCHANGED <<pc, local, run, requests, result, cache, fetchCount>>
    /\ UNCHANGED etlVars

Step(t) == Call(t) \/ LoadOk(t) \/ LoadFail(t) \/ Derive(t) \/ MetaOk(t) \/ MetaFail(t)

Next == Tick \/ \E t \in Callers : Step(t)

\* One call at a time: a caller moves only while every other caller is idle.
NextSeq == Tick \/ \E t \in Callers : (\A u \in Callers \ {t} : pc[u] = "idle") /\ Step(t)

\* ------------------------------------------------------------ specifications
CallersIdle ==
    /\ pc = [t \in Callers |-> "idle"]
    /\ local = [t \in Callers |-> {}]
    /\ run = [t \in Callers |-> 0]
    /\ requests = [t \in Callers |-> 0]
    /\ result = [t \in Callers |-> NoResult]
    /\ cache = EmptySlot
    /\ now = 0
    /\ fetchCount = 0

EtlTablesEmpty ==
    /\ dfs_global = <<>>
    /\ dfs_country = <<>>
    /\ dfs_daily = <<>>
    /\ df_country_consol = <<>>

Init == csv = <<>> /\ EtlTablesEmpty /\ stage = "off" /\ CallersIdle

InitEtl == csv \in Inputs /\ EtlTablesEmpty /\ stage = "start" /\ CallersIdle

Spec == Init /\ [][Next]_vars

SpecSeq == Init /\ [][NextSeq]_vars

SpecEtl == InitEtl /\ [][NextEtl]_vars

\* ---------------------------------------------------------------- claims
\* Helpers of the statements below.
KeysOf(table) == {KeyOfRow(table[i]) : i \in 1..Len(table)}
RowsAt(table, key) == {i \in 1..Len(table) : KeyOfRow(table[i]) = key}

RECURSIVE SumIdx(_, _)
SumIdx(long, S) ==
    IF S = {} THEN 0
    ELSE LET j == CHOOSE j \in S : TRUE IN long[j]["Cases"] + SumIdx(long, S \ {j})

EtlCountryBuilt == stage \in {"country", "daily", "done"}
EtlDailyBuilt == stage \in {"daily", "done"}
EtlDone == stage = "done"

InFlight == {t \in Callers : pc[t] # "idle"}
\* FRESH as the claims word it: a bundle is stored and its age is below 360.
AgeFresh(slot, clock) == slot.full /\ clock - slot.storedAt < 360
IsBundle(v) == v.kind = "Bundle"
Completes(t) == pc[t] # "idle" /\ pc'[t] = "idle"

\* C1: when the metadata fetch fails after the three case-data fetches
\* succeeded, the call still returns a bundle: all tables and the sentinel
\* timestamp. The call of a caller t has failed at the metadata fetch exactly
\* when what it got is the exception raised there.
C1_MetadataFailureYieldsSentinel ==
    \A t \in Callers :
        result[t] = Raised("meta") =>
            /\ IsBundle(result[t])
            /\ DOMAIN result[t].tables = AllKeys
            /\ result[t].ts = <<"N/A">>

\* C2 (as claimed): with calls one at a time, a call on a fresh slot returns the
\* stored bundle and starts no pipeline run; a call on an empty or expired slot
\* starts exactly one run, and when it completes the result is stored and the
\* slot is fresh.
C2_MissAlwaysLeavesFresh ==
    [][\A t \in Callers :
          /\ (pc[t] = "idle" /\ AgeFresh(cache, now)) =>
                /\ pc'[t] = "idle" /\ fetchCount' = fetchCount /\ cache' = cache
                /\ result'[t] \in {result[t], cache.value}
          /\ (pc[t] = "idle" /\ ~AgeFresh(cache, now)) =>
                /\ result'[t] = result[t]
                /\ pc'[t] # "idle" => fetchCount' = fetchCount + 1 /\ cache' = cache
          /\ pc[t] # "idle" => fetchCount' = fetchCount
          /\ Completes(t) =>
                /\ AgeFresh(cache', now')
                /\ IsBundle(result'[t]) /\ cache'.value = result'[t]
      ]_vars

\* C2 (amended): as above, except that the run's result is stored and the slot
\* left fresh only when the run completes without raising; a run that raises
\* stores nothing and leaves the slot as it was.
C2_HitReturnsStored_MissRunsOnce ==
    [][\A t \in Callers :
          /\ (pc[t] = "idle" /\ AgeFresh(cache, now)) =>
                /\ pc'[t] = "idle" /\ fetchCount' = fetchCount /\ cache' = cache
                /\ result'[t] \in {result[t], cache.value}
          /\ (pc[t] = "idle" /\ ~AgeFresh(cache, now)) =>
                /\ result'[t] = result[t]
                /\ pc'[t] # "idle" => fetchCount' = fetchCount + 1 /\ cache' = cache
          /\ pc[t] # "idle" => fetchCount' = fetchCount
          /\ Completes(t) =>
                \/ /\ IsBundle(result'[t])
                   /\ \A k \in AllKeys : result'[t].tables[k] = run[t]
                   /\ cache'.value = result'[t]
                   /\ AgeFresh(cache', now')
                \/ /\ result'[t].kind = "Error"
                   /\ cache' = cache
                   /\ ~AgeFresh(cache', now')
      ]_vars

\* C2 witness: both callers hold the bundle of the second run (so one of them
\* was served from the slot) and the slot is fresh again after an expiry.
C2_Witness ==
    /\ fetchCount = 2
    /\ \A t \in Callers : IsBundle(result[t]) /\ result[t].ts = <<"date", 2>>
    /\ AgeFresh(cache, now)
    /\ InFlight = {}

C4_AtMostOneInFlight == Cardinality(InFlight) <= 1

\* C4 (amended): every caller that finds the slot empty or expired starts its
\* own pipeline run, so as many runs can be in flight as there are concurrent
\* callers; a run is started only by a lookup that found no fresh value, and
\* the runs in flight are distinct runs.
C4_RunsStartOnlyOnMiss ==
    [][/\ \A t \in Callers :
             (pc[t] = "idle" /\ pc'[t] # "idle") =>
                 ~AgeFresh(cache, now) /\ run'[t] = fetchCount' /\ fetchCount' = fetchCount + 1
       /\ \A t \in Callers : \A u \in Callers \ {t} :
             (pc'[t] # "idle" /\ pc'[u] # "idle") => run'[t] # run'[u]
      ]_vars

\* C4 witness: two runs in flight at once.
C4_Witness == Cardinality(InFlight) = 2

\* C5: under any interleaving, every bundle a caller gets and every bundle in
\* the slot has all eleven dataset identifiers, and its tables and its
\* timestamp come from one and the same pipeline run.
C5_BundlesAreWhole ==
    LET Whole(b) ==
            /\ DOMAIN b.tables = AllKeys
            /\ Cardinality(AllKeys) = 11
            /\ \E r \in 1..fetchCount :
                  /\ \A k \in AllKeys : b.tables[k] = r
                  /\ b.ts = <<"date", r>>
    IN  /\ \A t \in Callers : IsBundle(result[t]) => Whole(result[t])
        /\ cache.full => IsBundle(cache.value) /\ Whole(cache.value)

\* C5 witness: one caller holds a bundle while the other is part-way through
\* its own run with only some tables built.
C5_Witness ==
    \E t \in Callers : \E u \in Callers :
        /\ IsBundle(result[t]) /\ pc[t] = "idle" /\ cache.full
        /\ pc[u] = "load" /\ Cardinality(local[u]) = 2

\* C6: per country, in ascending calendar-date order, the daily value is 0 on
\* the first date and total[i] - total[i-1] afterwards; never across
\* countries, never clamped.
C6_DailyIsFirstDifference ==
    EtlDailyBuilt =>
        \A c \in CountryKeys :
            LET ct == dfs_country[c]
                dd == dfs_daily[CountryToDailyKey(c)]
                tcol == TotalCol(c)
                dcol == DailyCol(c)
            IN  /\ KeysOf(dd) = KeysOf(ct)
                /\ \A i \in 1..Len(ct) :
                     LET earlier == {j \in 1..Len(ct) :
                                        /\ ct[j]["Country/Region"] = ct[i]["Country/Region"]
                                        /\ ct[j]["Date"] < ct[i]["Date"]}
                         at == RowsAt(dd, KeyOfRow(ct[i]))
                     IN  /\ Cardinality(at) = 1
                         /\ \A k \in at :
                              IF earlier = {}
                              THEN dd[k][dcol] = Num(0)
                              ELSE \E p \in earlier :
                                     /\ \A j \in earlier : ct[j]["Date"] <= ct[p]["Date"]
                                     /\ IsNum(dd[k][dcol])
                                     /\ ct[i][tcol].n = ct[p][tcol].n + dd[k][dcol].n

\* C6 witness: country B with totals 1, 0, 2 on 1/9, 1/10, 1/11: daily values
\* -1 on 1/10 (not clamped) and 2 on 1/11.
C6_Witness ==
    /\ EtlDone
    /\ LET dd == dfs_daily[TS_COVID19_DAILY_NEW_CONFIRMED_COUNTRY]
       IN  /\ \E i \in 1..Len(dd) :
                 /\ KeyOfRow(dd[i]) = <<CountryB, 20200110>>
                 /\ dd[i]["Daily New Confirmed"] = Num(-1)
           /\ \E i \in 1..Len(dd) :
                 /\ KeyOfRow(dd[i]) = <<CountryB, 20200111>>
                 /\ dd[i]["Daily New Confirmed"] = Num(2)

\* C7: country_data gives exactly one row per distinct (country, calendar
\* date), whose value is the sum over that country's sub-location rows of that
\* date.
C7_OneRowPerCountryDate ==
    EtlCountryBuilt =>
        \A g \in GlobalKeys :
            LET long == dfs_global[g]
                ct == dfs_country[GlobalToCountryKey(g)]
                keys == {<<long[j]["Country/Region"], to_datetime(long[j]["Date"])>> :
                            j \in 1..Len(long)}
            IN  /\ KeysOf(ct) = keys
                /\ Len(ct) = Cardinality(keys)
                /\ \A i \in 1..Len(ct) :
                     ct[i][TotalCol(g)] =
                        Num(SumIdx(long, {j \in 1..Len(long) :
                               /\ long[j]["Country/Region"] = ct[i]["Country/Region"]
                               /\ to_datetime(long[j]["Date"]) = ct[i]["Date"]}))

\* C7 witness: sub-locations p1 = [0,1,1] and p2 = [0,0,1] of country B give the
\* totals [0,1,2].
C7_Witness ==
    /\ EtlCountryBuilt
    /\ csv[TS_COVID19_CONFIRMED_GLOBAL].rows[1].vals = <<0, 1, 1>>
    /\ csv[TS_COVID19_CONFIRMED_GLOBAL].rows[3].vals = <<0, 0, 1>>
    /\ LET ct == dfs_country[TS_COVID19_CONFIRMED_COUNTRY]
       IN  /\ Len(ct) = 6
           /\ KeyOfRow(ct[4]) = <<CountryB, 20200109>> /\ ct[4]["Total Confirmed"] = Num(0)
           /\ KeyOfRow(ct[5]) = <<CountryB, 20200110>> /\ ct[5]["Total Confirmed"] = Num(1)
           /\ KeyOfRow(ct[6]) = <<CountryB, 20200111>> /\ ct[6]["Total Confirmed"] = Num(2)

\* C8: the consolidated table has exactly the keys of the confirmed country
\* table, one row each; a key the deaths (recovered) table lacks has a missing
\* Total Deaths (Total Recovered), a key it has carries that table's total.
C8_KeysAreConfirmedKeys ==
    EtlDone =>
        LET conf == dfs_country[TS_COVID19_CONFIRMED_COUNTRY]
            Carries(r, table, col) ==
                IF KeyOfRow(r) \in KeysOf(table)
                THEN \A j \in RowsAt(table, KeyOfRow(r)) : r[col] = table[j][col]
                ELSE IsNaN(r[col])
        IN  /\ KeysOf(df_country_consol) = KeysOf(conf)
            /\ Len(df_country_consol) = Cardinality(KeysOf(conf))
            /\ \A i \in 1..Len(df_country_consol) :
                 LET r == df_country_consol[i]
                 IN  /\ Carries(r, conf, "Total Confirmed")
                     /\ Carries(r, dfs_country[TS_COVID19_DEATHS_COUNTRY], "Total Deaths")
                     /\ Carries(r, dfs_country[TS_COVID19_RECOVERED_COUNTRY], "Total Recovered")

\* C8 witness: the deaths table has a key confirmed lacks, confirmed has a key
\* deaths lacks, and they share one.
C8_Witness ==
    /\ EtlDone
    /\ LET ck == KeysOf(dfs_country[TS_COVID19_CONFIRMED_COUNTRY])
           dk == KeysOf(dfs_country[TS_COVID19_DEATHS_COUNTRY])
       IN  dk \ ck # {} /\ ck \ dk # {} /\ ck \cap dk # {}

\* C9 (as claimed): in every row, Total Active Cases equals Total Confirmed -
\* Total Deaths - Total Recovered, also where the key is absent from the deaths
\* or recovered table.
C9_ActiveCasesEverywhere ==
    EtlDone =>
        \A i \in 1..Len(df_country_consol) :
            LET r == df_country_consol[i]
            IN  /\ IsNum(r["Total Active Cases"])
                /\ IsNum(r["Total Deaths"]) /\ IsNum(r["Total Recovered"])
                /\ r["Total Active Cases"].n =
                      r["Total Confirmed"].n - r["Total Deaths"].n - r["Total Recovered"].n

\* C9 (amended): the equation holds exactly in every row whose key is present
\* in both the deaths and the recovered table; in a row where either total is
\* missing, Total Active Cases is missing too.
C9_ActiveCasesWherePresent ==
    EtlDone =>
        \A i \in 1..Len(df_country_consol) :
            LET r == df_country_consol[i]
            IN  IF IsNum(r["Total Deaths"]) /\ IsNum(r["Total Recovered"])
                THEN /\ IsNum(r["Total Active Cases"])
                     /\ r["Total Active Cases"].n =
                           r["Total Confirmed"].n - r["Total Deaths"].n
                           - r["Total Recovered"].n
                ELSE IsNaN(r["Total Active Cases"])

\* C9 witness: one row with all three totals and a non-zero result, one row
\* whose deaths total is missing.
C9_Witness ==
    /\ EtlDone
    /\ \E i \in 1..Len(df_country_consol) :
          /\ IsNum(df_country_consol[i]["Total Active Cases"])
          /\ df_country_consol[i]["Total Active Cases"].n < 0
    /\ \E i \in 1..Len(df_country_consol) :
          /\ IsNaN(df_country_consol[i]["Total Deaths"])
          /\ IsNum(df_country_consol[i]["Total Recovered"])

\* C10 (as claimed): the share is not-a-number exactly when Total Recovered +
\* Total Deaths = 0, and the death ratio exactly when Total Confirmed = 0.
C10_NaNIffZeroDenominator ==
    EtlDone =>
        \A i \in 1..Len(df_country_consol) :
            LET r == df_country_consol[i]
            IN  /\ IsNaN(r["Share of Recovered - Closed Cases"])
                     <=> FEq(FAdd(r["Total Recovered"], r["Total Deaths"]), Num(0))
                /\ IsNaN(r["Death to Cases Ratio"])
                     <=> FEq(r["Total Confirmed"], Num(0))

\* C10 (amended): each ratio is not-a-number exactly when an operand is missing
\* or numerator and denominator are both 0; a zero denominator under a non-zero
\* numerator gives a signed infinity; otherwise the ratio is a number. Nothing
\* raises: every row has both cells.
C10_NaNInfOrNumber ==
    EtlDone =>
        \A i \in 1..Len(df_country_consol) :
            LET r == df_country_consol[i]
                share == r["Share of Recovered - Closed Cases"]
                ratio == r["Death to Cases Ratio"]
                C == r["Total Confirmed"]
                D == r["Total Deaths"]
                R == r["Total Recovered"]
                Kind(x, num, den) ==
                    IF ~num.known \/ ~den.known \/ (den.n = 0 /\ num.n = 0) THEN IsNaN(x)
                    ELSE IF den.n = 0 THEN IsInf(x) /\ (x.n = 1 <=> num.n > 0)
                    ELSE IsNum(x)
            IN  /\ {"Share of Recovered - Closed Cases", "Death to Cases Ratio"} \subseteq DOMAIN r
                /\ Kind(share, [known |-> IsNum(R), n |-> R.n],
                               [known |-> IsNum(R) /\ IsNum(D), n |-> R.n + D.n])
                /\ Kind(ratio, [known |-> IsNum(D), n |-> D.n],
                               [known |-> IsNum(C), n |-> C.n])

\* C10 witness: a row with Total Confirmed = 0 and Total Deaths = 1 (an
\* infinite ratio), and a row whose deaths total is missing.
C10_Witness ==
    /\ EtlDone
    /\ \E i \in 1..Len(df_country_consol) :
          /\ df_country_consol[i]["Total Confirmed"] = Num(0)
          /\ df_country_consol[i]["Total Deaths"] = Num(1)
          /\ IsInf(df_country_consol[i]["Death to Cases Ratio"])
    /\ \E i \in 1..Len(df_country_consol) :
          /\ IsNaN(df_country_consol[i]["Total Deaths"])
          /\ IsNaN(df_country_consol[i]["Share of Recovered - Closed Cases"])

====
